---------------------------- MODULE Spec2Model ----------------------------
(***************************************************************************)
(* Model of the notebook reviewer server (src/main.py): the two in-memory  *)
(* slots `guidelines` and `notebook_cells`, the three load tools and       *)
(* get_prompt_for_claude with its per-cell truncation, its budgeted        *)
(* assembly of the notebook section and the composition of the prompt.     *)
(*                                                                         *)
(* A Python str is modelled by its characters, held as the sequence of its *)
(* runs: "aaab" is <<[c |-> "a", n |-> 3], [c |-> "b", n |-> 1]>>.  No run *)
(* is empty and neighbouring runs differ in their character, so two texts  *)
(* are equal exactly when their run sequences are.  len(), slicing, split, *)
(* join and strip are computed on the characters the runs stand for.       *)
(***************************************************************************)
EXTENDS Integers, Sequences, FiniteSets, TLC

VARIABLES
    guidelines,             \* module global `guidelines` (list of str)
    notebook_cells,         \* module global `notebook_cells` (list of dict)
    result,                 \* what the most recent tool call returned or raised
    last_op,                \* name of the most recent tool call ("" at start)
    trimmed_cells_content   \* get_prompt_for_claude's local list of blocks
                            \* at its return (<<>> outside a composing call)

vars == <<guidelines, notebook_cells, result, last_op, trimmed_cells_content>>

---------------------------------------------------------------------------
(* Python built-ins on str and list.                                       *)

Min(a, b) == IF a < b THEN a ELSE b
Max(a, b) == IF a > b THEN a ELSE b

\* c * n for a one-character c
Rep(c, n) == IF n <= 0 THEN <<>> ELSE <<[c |-> c, n |-> n]>>

\* a + b
Cat(a, b) ==
    IF Len(a) = 0 THEN b
    ELSE IF Len(b) = 0 THEN a
    ELSE IF a[Len(a)].c = b[1].c
    THEN SubSeq(a, 1, Len(a) - 1)
             \o <<[c |-> b[1].c, n |-> a[Len(a)].n + b[1].n]>>
             \o Tail(b)
    ELSE a \o b

\* the str with the characters chars[lo..hi]
RECURSIVE TxtOf(_, _, _)
TxtOf(chars, lo, hi) ==
    IF lo > hi THEN <<>>
    ELSE IF lo = hi THEN <<[c |-> chars[lo], n |-> 1]>>
    ELSE LET mid == (lo + hi) \div 2
         IN  Cat(TxtOf(chars, lo, mid), TxtOf(chars, mid + 1, hi))

\* the str with the characters of the tuple chars
Txt(chars) == TxtOf(chars, 1, Len(chars))

\* the end position of every run of t[lo..hi], counted from the start of t[lo]
RECURSIVE EndsOf(_, _, _)
EndsOf(t, lo, hi) ==
    IF lo > hi THEN <<>>
    ELSE IF lo = hi THEN <<t[lo].n>>
    ELSE LET mid == (lo + hi) \div 2
             left == EndsOf(t, lo, mid)
             right == EndsOf(t, mid + 1, hi)
         IN  left \o [i \in 1..Len(right) |-> right[i] + left[Len(left)]]

\* len(t)
TLen(t) == IF Len(t) = 0 THEN 0 ELSE EndsOf(t, 1, Len(t))[Len(t)]

\* the characters lo..hi of t, counted from 1 (t[lo-1:hi])
Slice(t, lo, hi) ==
    LET ends == EndsOf(t, 1, Len(t))
        from == Max(lo, 1)
        to == IF Len(t) = 0 THEN 0 ELSE Min(hi, ends[Len(t)])
        a == Cardinality({j \in 1..Len(t) : ends[j] < from}) + 1
        b == Cardinality({j \in 1..Len(t) : ends[j] < to}) + 1
    IN  IF from > to THEN <<>>
        ELSE [k \in 1..(b - a + 1) |->
                 LET j == a + k - 1
                 IN  [c |-> t[j].c,
                      n |-> Min(ends[j], to)
                                - Max(ends[j] - t[j].n + 1, from) + 1]]

\* s[:n] for n >= 0
Prefix(s, n) == Slice(s, 1, n)

\* s[start:] for 0 <= start
SliceFrom(s, start) == Slice(s, start + 1, TLen(s))

\* items[:n] and items[-n:] of a list, for n >= 0 (items[-0:] is all of it)
FirstItems(items, n) == SubSeq(items, 1, Min(n, Len(items)))
LastItems(items, n) ==
    IF n = 0 THEN items
    ELSE SubSeq(items, Max(Len(items) - n, 0) + 1, Len(items))

\* the characters str.strip() removes that a TLA+ string can name
Whitespace == {" ", "\t", "\n", "\r", "\f"}

RECURSIVE FirstNonWs(_, _)
FirstNonWs(s, j) ==
    IF j > Len(s) \/ s[j].c \notin Whitespace THEN j ELSE FirstNonWs(s, j + 1)

RECURSIVE LastNonWs(_, _)
LastNonWs(s, j) ==
    IF j < 1 \/ s[j].c \notin Whitespace THEN j ELSE LastNonWs(s, j - 1)

\* str.strip(): the runs of whitespace at either end go
Strip(s) == SubSeq(s, FirstNonWs(s, 1), LastNonWs(s, Len(s)))

\* sep.join(parts)
RECURSIVE Join(_, _)
Join(parts, sep) ==
    IF Len(parts) = 0 THEN <<>>
    ELSE IF Len(parts) = 1 THEN parts[1]
    ELSE Cat(Cat(parts[1], sep), Join(Tail(parts), sep))

\* parts[1] + parts[2] + ...
Concat(parts) == Join(parts, <<>>)

\* str.split('\n') at the runs of newlines breaks[lo..hi]: a run of n
\* newlines ends one piece and starts the next, with n - 1 empty pieces in
\* between
RECURSIVE SplitAt(_, _, _, _)
SplitAt(s, breaks, lo, hi) ==
    IF lo > hi THEN <<>>
    ELSE IF lo = hi
    THEN LET stop == IF lo = Len(breaks) THEN Len(s) ELSE breaks[lo + 1] - 1
         IN  [i \in 1..(s[breaks[lo]].n - 1) |-> <<>>]
                 \o <<SubSeq(s, breaks[lo] + 1, stop)>>
    ELSE LET mid == (lo + hi) \div 2
         IN  SplitAt(s, breaks, lo, mid) \o SplitAt(s, breaks, mid + 1, hi)

\* str.split('\n'): the pieces between the newlines, in order
Split(s) ==
    LET P == {j \in 1..Len(s) : s[j].c = "\n"}
        breaks == [r \in 1..Cardinality(P) |->
                      CHOOSE p \in P : Cardinality({q \in P : q < p}) = r - 1]
        stop == IF Len(breaks) = 0 THEN Len(s) ELSE breaks[1] - 1
    IN  <<SubSeq(s, 1, stop)>> \o SplitAt(s, breaks, 1, Len(breaks))

Digits == <<"0", "1", "2", "3", "4", "5", "6", "7", "8", "9">>

\* the decimal digits of an int n >= 0
RECURSIVE DigitsOf(_)
DigitsOf(n) ==
    IF n < 10 THEN <<Digits[n + 1]>>
    ELSE DigitsOf(n \div 10) \o <<Digits[(n % 10) + 1]>>

\* str(n) / f"{n}" for an int n >= 0
ToStr(n) == Txt(DigitsOf(n))

LowerCase ==
    <<"a", "b", "c", "d", "e", "f", "g", "h", "i", "j", "k", "l", "m",
      "n", "o", "p", "q", "r", "s", "t", "u", "v", "w", "x", "y", "z">>
UpperCase ==
    <<"A", "B", "C", "D", "E", "F", "G", "H", "I", "J", "K", "L", "M",
      "N", "O", "P", "Q", "R", "S", "T", "U", "V", "W", "X", "Y", "Z">>

ToUpper(c) ==
    IF \E i \in 1..Len(LowerCase) : LowerCase[i] = c
    THEN UpperCase[CHOOSE i \in 1..Len(LowerCase) : LowerCase[i] = c]
    ELSE c
ToLower(c) ==
    IF \E i \in 1..Len(UpperCase) : UpperCase[i] = c
    THEN LowerCase[CHOOSE i \in 1..Len(UpperCase) : UpperCase[i] = c]
    ELSE c

\* the characters of a str, one by one
RECURSIVE Chars(_)
Chars(s) ==
    IF Len(s) = 0 THEN <<>>
    ELSE [i \in 1..s[1].n |-> s[1].c] \o Chars(Tail(s))

\* str.capitalize(): first character upper-cased, the rest lower-cased
Capitalize(s) ==
    LET chars == Chars(s)
    IN  Txt([i \in 1..Len(chars) |->
                 IF i = 1 THEN ToUpper(chars[i]) ELSE ToLower(chars[i])])

---------------------------------------------------------------------------
(* The string literals of src/main.py, character by character.            *)

\* the character U+0060, which a TLA+ string literal cannot hold
Backtick == "<backtick>"

\* main.py:25  " guideline(s) loaded."  (21 characters)
GuidelinesLoadedSuffix ==
    Txt(
        <<" ","g","u","i","d","e","l","i","n","e","(","s",")"," ","l","o","a",
          "d","e","d",".">>)
\* main.py:24  "single positional indexer is out-of-bounds"  (42 characters)
IndexErrorText ==
    Txt(
        <<"s","i","n","g","l","e"," ","p","o","s","i","t","i","o","n","a","l",
          " ","i","n","d","e","x","e","r"," ","i","s"," ","o","u","t","-","o",
          "f","-","b","o","u","n","d","s">>)
\* main.py:27  "Error loading guidelines: "  (26 characters)
ErrorLoadingGuidelines ==
    Txt(
        <<"E","r","r","o","r"," ","l","o","a","d","i","n","g"," ","g","u","i",
          "d","e","l","i","n","e","s",":"," ">>)
\* main.py:45  " notebook cell(s) loaded."  (25 characters)
CellsLoadedSuffix ==
    Txt(
        <<" ","n","o","t","e","b","o","o","k"," ","c","e","l","l","(","s",")",
          " ","l","o","a","d","e","d",".">>)
\* main.py:47  "Error loading notebook: "  (24 characters)
ErrorLoadingNotebook ==
    Txt(
        <<"E","r","r","o","r"," ","l","o","a","d","i","n","g"," ","n","o","t",
          "e","b","o","o","k",":"," ">>)
\* main.py:65  " notebook cell(s) loaded from pasted content."  (45 characters)
CellsLoadedPastedSuffix ==
    Txt(
        <<" ","n","o","t","e","b","o","o","k"," ","c","e","l","l","(","s",")",
          " ","l","o","a","d","e","d"," ","f","r","o","m"," ","p","a","s","t",
          "e","d"," ","c","o","n","t","e","n","t",".">>)
\* main.py:67  "Failed to parse notebook JSON: "  (31 characters)
FailedToParseNotebook ==
    Txt(
        <<"F","a","i","l","e","d"," ","t","o"," ","p","a","r","s","e"," ","n",
          "o","t","e","b","o","o","k"," ","J","S","O","N",":"," ">>)
\* main.py:78  "No guidelines loaded. Use 'load_guidelines()' first."  (52 characters)
NoGuidelinesMsg ==
    Txt(
        <<"N","o"," ","g","u","i","d","e","l","i","n","e","s"," ","l","o","a",
          "d","e","d","."," ","U","s","e"," ",Backtick,"l","o","a","d","_",
          "g","u","i","d","e","l","i","n","e","s","(",")",Backtick," ","f",
          "i","r","s","t",".">>)
\* main.py:80  "No notebook loaded. Use 'load_notebook()' or 'load_notebook_content()' first."  (77 characters)
NoNotebookMsg ==
    Txt(
        <<"N","o"," ","n","o","t","e","b","o","o","k"," ","l","o","a","d","e",
          "d","."," ","U","s","e"," ",Backtick,"l","o","a","d","_","n","o",
          "t","e","b","o","o","k","(",")",Backtick," ","o","r"," ",Backtick,
          "l","o","a","d","_","n","o","t","e","b","o","o","k","_","c","o","n",
          "t","e","n","t","(",")",Backtick," ","f","i","r","s","t",".">>)
\* main.py:102  "# Cell "  (7 characters)
CellHeaderPrefix ==
    Txt(
        <<"#"," ","C","e","l","l"," ">>)
\* main.py:102  " - "  (3 characters)
CellHeaderSep ==
    Txt(
        <<" ","-"," ">>)
\* main.py:112  "\n... [CODE TRUNCATED - "  (23 characters)
CodeMarkerPrefix ==
    Txt(
        <<"\n",".",".","."," ","[","C","O","D","E"," ","T","R","U","N","C",
          "A","T","E","D"," ","-"," ">>)
\* main.py:112  " lines omitted] ...\n"  (20 characters)
CodeMarkerSuffix ==
    Txt(
        <<" ","l","i","n","e","s"," ","o","m","i","t","t","e","d","]"," ",".",
          ".",".","\n">>)
\* main.py:117  "\n... [MARKDOWN TRUNCATED] ..."  (29 characters)
MarkdownMarker ==
    Txt(
        <<"\n",".",".","."," ","[","M","A","R","K","D","O","W","N"," ","T",
          "R","U","N","C","A","T","E","D","]"," ",".",".",".">>)
\* main.py:127  "\n... [STREAM OUTPUT TRUNCATED - middle omitted] ...\n"  (52 characters)
StreamMarker ==
    Txt(
        <<"\n",".",".","."," ","[","S","T","R","E","A","M"," ","O","U","T",
          "P","U","T"," ","T","R","U","N","C","A","T","E","D"," ","-"," ","m",
          "i","d","d","l","e"," ","o","m","i","t","t","e","d","]"," ",".",".",
          ".","\n">>)
\* main.py:133  "Output (stream):\n'''\n"  (21 characters)
StreamFenceOpen ==
    Txt(
        <<"O","u","t","p","u","t"," ","(","s","t","r","e","a","m",")",":",
          "\n",Backtick,Backtick,Backtick,"\n">>)
\* main.py:133  "\n'''"  (4 characters)
FenceClose ==
    Txt(
        <<"\n",Backtick,Backtick,Backtick>>)
\* main.py:142  "\n... [EXEC RESULT TRUNCATED - middle omitted] ...\n"  (50 characters)
ExecResultMarker ==
    Txt(
        <<"\n",".",".","."," ","[","E","X","E","C"," ","R","E","S","U","L",
          "T"," ","T","R","U","N","C","A","T","E","D"," ","-"," ","m","i","d",
          "d","l","e"," ","o","m","i","t","t","e","d","]"," ",".",".",".","\n">>)
\* main.py:148  "Output (result):\n'''\n"  (21 characters)
ResultFenceOpen ==
    Txt(
        <<"O","u","t","p","u","t"," ","(","r","e","s","u","l","t",")",":",
          "\n",Backtick,Backtick,Backtick,"\n">>)
\* main.py:150  "Output (image/plot): [Image data omitted. Refer to code for generation logic.]"  (78 characters)
ImagePlaceholder ==
    Txt(
        <<"O","u","t","p","u","t"," ","(","i","m","a","g","e","/","p","l","o",
          "t",")",":"," ","[","I","m","a","g","e"," ","d","a","t","a"," ","o",
          "m","i","t","t","e","d","."," ","R","e","f","e","r"," ","t","o"," ",
          "c","o","d","e"," ","f","o","r"," ","g","e","n","e","r","a","t","i",
          "o","n"," ","l","o","g","i","c",".","]">>)
\* main.py:152  "Error Type: "  (12 characters)
ErrorTypePrefix ==
    Txt(
        <<"E","r","r","o","r"," ","T","y","p","e",":"," ">>)
\* main.py:152  "\nError Value: "  (14 characters)
ErrorValuePrefix ==
    Txt(
        <<"\n","E","r","r","o","r"," ","V","a","l","u","e",":"," ">>)
\* main.py:154  "\n... [ERROR TRUNCATED] ..."  (26 characters)
ErrorMarker ==
    Txt(
        <<"\n",".",".","."," ","[","E","R","R","O","R"," ","T","R","U","N",
          "C","A","T","E","D","]"," ",".",".",".">>)
\* main.py:155  "Output (error):\n'''\n"  (20 characters)
ErrorFenceOpen ==
    Txt(
        <<"O","u","t","p","u","t"," ","(","e","r","r","o","r",")",":","\n",
          Backtick,Backtick,Backtick,"\n">>)
\* main.py:161  "[Remaining cell content and subsequent cells skipped due to overall notebook content length limit.]"  (99 characters)
SkipMarker ==
    Txt(
        <<"[","R","e","m","a","i","n","i","n","g"," ","c","e","l","l"," ","c",
          "o","n","t","e","n","t"," ","a","n","d"," ","s","u","b","s","e","q",
          "u","e","n","t"," ","c","e","l","l","s"," ","s","k","i","p","p","e",
          "d"," ","d","u","e"," ","t","o"," ","o","v","e","r","a","l","l"," ",
          "n","o","t","e","b","o","o","k"," ","c","o","n","t","e","n","t"," ",
          "l","e","n","g","t","h"," ","l","i","m","i","t",".","]">>)
\* main.py:170  "Below is the content of a Jupyter notebook. Please review this notebook based on the specific guidelines provided afterwards.\n"  (126 characters)
PromptIntro ==
    Txt(
        <<"B","e","l","o","w"," ","i","s"," ","t","h","e"," ","c","o","n","t",
          "e","n","t"," ","o","f"," ","a"," ","J","u","p","y","t","e","r"," ",
          "n","o","t","e","b","o","o","k","."," ","P","l","e","a","s","e"," ",
          "r","e","v","i","e","w"," ","t","h","i","s"," ","n","o","t","e","b",
          "o","o","k"," ","b","a","s","e","d"," ","o","n"," ","t","h","e"," ",
          "s","p","e","c","i","f","i","c"," ","g","u","i","d","e","l","i","n",
          "e","s"," ","p","r","o","v","i","d","e","d"," ","a","f","t","e","r",
          "w","a","r","d","s",".","\n">>)
\* main.py:171  "Note that some code cells, markdown cells, or their outputs may be truncated due to length limits.\n\n"  (100 characters)
PromptNote ==
    Txt(
        <<"N","o","t","e"," ","t","h","a","t"," ","s","o","m","e"," ","c","o",
          "d","e"," ","c","e","l","l","s",","," ","m","a","r","k","d","o","w",
          "n"," ","c","e","l","l","s",","," ","o","r"," ","t","h","e","i","r",
          " ","o","u","t","p","u","t","s"," ","m","a","y"," ","b","e"," ","t",
          "r","u","n","c","a","t","e","d"," ","d","u","e"," ","t","o"," ","l",
          "e","n","g","t","h"," ","l","i","m","i","t","s",".","\n","\n">>)
\* main.py:172  "--- START NOTEBOOK CONTENT ---\n"  (31 characters)
StartNotebookContent ==
    Txt(
        <<"-","-","-"," ","S","T","A","R","T"," ","N","O","T","E","B","O","O",
          "K"," ","C","O","N","T","E","N","T"," ","-","-","-","\n">>)
\* main.py:174  "\n--- END NOTEBOOK CONTENT ---\n\n"  (31 characters)
EndNotebookContent ==
    Txt(
        <<"\n","-","-","-"," ","E","N","D"," ","N","O","T","E","B","O","O",
          "K"," ","C","O","N","T","E","N","T"," ","-","-","-","\n","\n">>)
\* main.py:176  "--- REVIEW GUIDELINES ---\n"  (26 characters)
ReviewGuidelinesOpen ==
    Txt(
        <<"-","-","-"," ","R","E","V","I","E","W"," ","G","U","I","D","E","L",
          "I","N","E","S"," ","-","-","-","\n">>)
\* main.py:178  "Guideline "  (10 characters)
GuidelinePrefix ==
    Txt(
        <<"G","u","i","d","e","l","i","n","e"," ">>)
\* main.py:178  ": "  (2 characters)
GuidelineSep ==
    Txt(
        <<":"," ">>)
\* main.py:179  "--- END REVIEW GUIDELINES ---\n\n"  (31 characters)
ReviewGuidelinesClose ==
    Txt(
        <<"-","-","-"," ","E","N","D"," ","R","E","V","I","E","W"," ","G","U",
          "I","D","E","L","I","N","E","S"," ","-","-","-","\n","\n">>)
\* main.py:181  "--- ANALYSIS INSTRUCTIONS ---\n"  (30 characters)
AnalysisOpen ==
    Txt(
        <<"-","-","-"," ","A","N","A","L","Y","S","I","S"," ","I","N","S","T",
          "R","U","C","T","I","O","N","S"," ","-","-","-","\n">>)
\* main.py:182  "Please evaluate the notebook content based on the guidelines. For each guideline, state whether it is met or not, and provide specific, constructive feedback and reasoning. Cite specific cell numbers where relevant.\n"  (216 characters)
AnalysisBody ==
    Txt(
        <<"P","l","e","a","s","e"," ","e","v","a","l","u","a","t","e"," ","t",
          "h","e"," ","n","o","t","e","b","o","o","k"," ","c","o","n","t","e",
          "n","t"," ","b","a","s","e","d"," ","o","n"," ","t","h","e"," ","g",
          "u","i","d","e","l","i","n","e","s","."," ","F","o","r"," ","e","a",
          "c","h"," ","g","u","i","d","e","l","i","n","e",","," ","s","t","a",
          "t","e"," ","w","h","e","t","h","e","r"," ","i","t"," ","i","s"," ",
          "m","e","t"," ","o","r"," ","n","o","t",","," ","a","n","d"," ","p",
          "r","o","v","i","d","e"," ","s","p","e","c","i","f","i","c",","," ",
          "c","o","n","s","t","r","u","c","t","i","v","e"," ","f","e","e","d",
          "b","a","c","k"," ","a","n","d"," ","r","e","a","s","o","n","i","n",
          "g","."," ","C","i","t","e"," ","s","p","e","c","i","f","i","c"," ",
          "c","e","l","l"," ","n","u","m","b","e","r","s"," ","w","h","e","r",
          "e"," ","r","e","l","e","v","a","n","t",".","\n">>)
\* main.py:183  "Example feedback format:\n"  (25 characters)
AnalysisExample ==
    Txt(
        <<"E","x","a","m","p","l","e"," ","f","e","e","d","b","a","c","k"," ",
          "f","o","r","m","a","t",":","\n">>)
\* main.py:184  "Guideline X: [Met/Not Met]\n"  (27 characters)
AnalysisExampleLine ==
    Txt(
        <<"G","u","i","d","e","l","i","n","e"," ","X",":"," ","[","M","e","t",
          "/","N","o","t"," ","M","e","t","]","\n">>)
\* main.py:185  "Feedback: [Your specific feedback, referencing relevant cell numbers]\n\n"  (71 characters)
AnalysisFeedbackLine ==
    Txt(
        <<"F","e","e","d","b","a","c","k",":"," ","[","Y","o","u","r"," ","s",
          "p","e","c","i","f","i","c"," ","f","e","e","d","b","a","c","k",",",
          " ","r","e","f","e","r","e","n","c","i","n","g"," ","r","e","l","e",
          "v","a","n","t"," ","c","e","l","l"," ","n","u","m","b","e","r","s",
          "]","\n","\n">>)
\* main.py:186  "--- END ANALYSIS INSTRUCTIONS ---\n"  (34 characters)
AnalysisClose ==
    Txt(
        <<"-","-","-"," ","E","N","D"," ","A","N","A","L","Y","S","I","S"," ",
          "I","N","S","T","R","U","C","T","I","O","N","S"," ","-","-","-","\n">>)

---------------------------------------------------------------------------
(* The truncation configuration of get_prompt_for_claude.                  *)

MAX_LINES_PER_CODE_CELL == 15
MAX_CHARS_PER_MD_CELL == 250
MAX_OUTPUT_CHARS_STREAM == 100
MAX_OUTPUT_CHARS_EXEC_RESULT == 150
MAX_ERROR_CHARS == 100
MAX_TOTAL_NOTEBOOK_CHARS == 150000

\* the cell types the renderer tests for
CodeType == Txt(<<"c", "o", "d", "e">>)
MarkdownType == Txt(<<"m", "a", "r", "k", "d", "o", "w", "n">>)

NL == Txt(<<"\n">>)
BlankLine == Txt(<<"\n", "\n">>)

---------------------------------------------------------------------------
(* The Python values the model holds.                                      *)
(*                                                                         *)
(* A stored cell is the dict [type, source, outputs].  An output is the    *)
(* parser's node: a record with output_type and the fields its type has;   *)
(* reading a field the node lacks raises AttributeError.  The value of a   *)
(* MIME entry is a str, [list |-> FALSE, value |-> text], or a list of     *)
(* str, [list |-> TRUE, value |-> <<text, ...>>].                          *)

\* the call returned the str `text`
Returned(text) == [raised |-> FALSE, value |-> text]
\* the call raised (the exception leaves the tool function)
Raised == [raised |-> TRUE, value |-> <<>>]

---------------------------------------------------------------------------
(* get_prompt_for_claude: rendering one cell.                              *)

\* main.py:102  f"# Cell {idx+1} - {cell['type'].capitalize()}\n", number = idx+1
cell_header(number, cell) ==
    Concat(<<CellHeaderPrefix, ToStr(number), CellHeaderSep,
             Capitalize(cell.type), NL>>)

\* a faulty variant of TrimCodeSource: the tail takes as many lines as the
\* head instead of the rest of the maximum
TrimCodeSourceEvenTail(source) ==
    LET lines == Split(source)
        head_lines_len == MAX_LINES_PER_CODE_CELL \div 2
        tail_lines_len == head_lines_len
    IN  IF Len(lines) > MAX_LINES_PER_CODE_CELL
        THEN Concat(<<Join(FirstItems(lines, head_lines_len), NL),
                      CodeMarkerPrefix,
                      ToStr(Len(lines) - MAX_LINES_PER_CODE_CELL),
                      CodeMarkerSuffix,
                      Join(LastItems(lines, tail_lines_len), NL)>>)
        ELSE source

\* main.py:107-113, the source of a code cell
TrimCodeSource(source) ==
    LET lines == Split(source)
        head_lines_len == MAX_LINES_PER_CODE_CELL \div 2
        tail_lines_len == MAX_LINES_PER_CODE_CELL - head_lines_len
    IN  IF Len(lines) > MAX_LINES_PER_CODE_CELL
        THEN Concat(<<Join(FirstItems(lines, head_lines_len), NL),
                      CodeMarkerPrefix,
                      ToStr(Len(lines) - MAX_LINES_PER_CODE_CELL),
                      CodeMarkerSuffix,
                      Join(LastItems(lines, tail_lines_len), NL)>>)
        ELSE source

\* a faulty variant of TrimMarkdownSource: a source of exactly the maximum
\* is truncated too
TrimMarkdownSourceAtLimit(source) ==
    IF TLen(source) >= MAX_CHARS_PER_MD_CELL
    THEN Cat(Prefix(source, MAX_CHARS_PER_MD_CELL), MarkdownMarker)
    ELSE source

\* main.py:116-117, the source of a markdown cell
TrimMarkdownSource(source) ==
    IF TLen(source) > MAX_CHARS_PER_MD_CELL
    THEN Cat(Prefix(source, MAX_CHARS_PER_MD_CELL), MarkdownMarker)
    ELSE source

\* main.py:104-118, cell_parts after the source branch
cell_parts(cell) ==
    LET source == Strip(cell.source)
    IN  IF cell.type = CodeType THEN <<TrimCodeSource(source)>>
        ELSE IF cell.type = MarkdownType THEN <<TrimMarkdownSource(source)>>
        ELSE <<>>

\* main.py:125-132, the text of a stream output
TrimStream(output_data) ==
    LET head_len == MAX_OUTPUT_CHARS_STREAM \div 2
        tail_room == MAX_OUTPUT_CHARS_STREAM - head_len - TLen(StreamMarker)
        tail_len == IF tail_room < 0 THEN 0 ELSE tail_room
    IN  IF TLen(output_data) > MAX_OUTPUT_CHARS_STREAM
        THEN Concat(<<Prefix(output_data, head_len), StreamMarker,
                      SliceFrom(output_data, TLen(output_data) - tail_len)>>)
        ELSE output_data

\* a faulty variant of TrimExecResult: the tail takes all that the head
\* leaves of the maximum, the marker not deducted
TrimExecResultFullTail(output_data) ==
    LET head_len == MAX_OUTPUT_CHARS_EXEC_RESULT \div 2
        tail_len == MAX_OUTPUT_CHARS_EXEC_RESULT - head_len
    IN  IF TLen(output_data) > MAX_OUTPUT_CHARS_EXEC_RESULT
        THEN Concat(<<Prefix(output_data, head_len), ExecResultMarker,
                      SliceFrom(output_data, TLen(output_data) - tail_len)>>)
        ELSE output_data

\* main.py:140-147, the text/plain of an execute_result
TrimExecResult(output_data) ==
    LET head_len == MAX_OUTPUT_CHARS_EXEC_RESULT \div 2
        tail_room == MAX_OUTPUT_CHARS_EXEC_RESULT - head_len
                         - TLen(ExecResultMarker)
        tail_len == IF tail_room < 0 THEN 0 ELSE tail_room
    IN  IF TLen(output_data) > MAX_OUTPUT_CHARS_EXEC_RESULT
        THEN Concat(<<Prefix(output_data, head_len), ExecResultMarker,
                      SliceFrom(output_data, TLen(output_data) - tail_len)>>)
        ELSE output_data

\* main.py:153-154, the text of an error output
TrimError(output_data) ==
    IF TLen(output_data) > MAX_ERROR_CHARS
    THEN Cat(Prefix(output_data, MAX_ERROR_CHARS), ErrorMarker)
    ELSE output_data

\* main.py:152  f"Error Type: {output.ename}\nError Value: {output.evalue}"
ErrorText(output) ==
    Concat(<<ErrorTypePrefix, output.ename, ErrorValuePrefix, output.evalue>>)

\* main.py:137-139  output.data['text/plain'], a list joined with "\n"
PlainText(output) ==
    LET output_data == output.data["text/plain"]
    IN  IF output_data.list THEN Join(output_data.value, NL)
        ELSE output_data.value

\* the attribute reads of main.py:123-152 that raise AttributeError
OutputRaises(output) ==
    \/ "output_type" \notin DOMAIN output
    \/ output.output_type = "stream" /\ "text" \notin DOMAIN output
    \/ output.output_type = "execute_result" /\ "data" \notin DOMAIN output
    \/ output.output_type = "error"
           /\ ("ename" \notin DOMAIN output \/ "evalue" \notin DOMAIN output)

\* main.py:123-155, what one output appends to output_text_parts
RenderOutput(output) ==
    IF output.output_type = "stream"
    THEN <<Concat(<<StreamFenceOpen, TrimStream(output.text), FenceClose>>)>>
    ELSE IF output.output_type = "execute_result"
    THEN IF "text/plain" \in DOMAIN output.data
         THEN <<Concat(<<ResultFenceOpen, TrimExecResult(PlainText(output)),
                         FenceClose>>)>>
         ELSE IF "image/png" \in DOMAIN output.data
         THEN <<ImagePlaceholder>>
         ELSE <<>>
    ELSE IF output.output_type = "error"
    THEN <<Concat(<<ErrorFenceOpen, TrimError(ErrorText(output)),
                    FenceClose>>)>>
    ELSE <<>>

RECURSIVE RenderOutputs(_)
RenderOutputs(outputs) ==
    IF Len(outputs) = 0 THEN <<>>
    ELSE RenderOutput(Head(outputs)) \o RenderOutputs(Tail(outputs))

\* main.py:120-155, output_text_parts of one cell
output_text_parts(cell) ==
    IF cell.type = CodeType /\ Len(cell.outputs) > 0
    THEN RenderOutputs(cell.outputs)
    ELSE <<>>

\* whether rendering the cell raises (an output lacks a field that is read)
CellRaises(cell) ==
    /\ cell.type = CodeType
    /\ \E i \in 1..Len(cell.outputs) : OutputRaises(cell.outputs[i])

\* main.py:157
cell_content(cell) ==
    Join(cell_parts(cell) \o output_text_parts(cell), BlankLine)

---------------------------------------------------------------------------
(* get_prompt_for_claude: the budgeted loop and the composition.           *)

\* a faulty variant of AssembleFrom: after the skip marker the loop goes on
\* to the next cell instead of stopping
RECURSIVE AssembleFromNoBreak(_, _, _, _)
AssembleFromNoBreak(cells, number, trimmed, current_total_notebook_chars) ==
    IF number > Len(cells) THEN [raised |-> FALSE, blocks |-> trimmed]
    ELSE IF CellRaises(cells[number]) THEN [raised |-> TRUE, blocks |-> <<>>]
    ELSE
        LET header == cell_header(number, cells[number])
            content == cell_content(cells[number])
            size == TLen(header) + TLen(content)
        IN  IF current_total_notebook_chars + size > MAX_TOTAL_NOTEBOOK_CHARS
            THEN AssembleFromNoBreak(cells, number + 1,
                                     Append(trimmed, Cat(header, SkipMarker)),
                                     current_total_notebook_chars)
            ELSE AssembleFromNoBreak(cells, number + 1,
                                     Append(trimmed, Cat(header, content)),
                                     current_total_notebook_chars + size)

\* main.py:100-165, the for loop from cell number `number` on, with the
\* locals trimmed_cells_content and current_total_notebook_chars
RECURSIVE AssembleFrom(_, _, _, _)
AssembleFrom(cells, number, trimmed, current_total_notebook_chars) ==
    IF number > Len(cells) THEN [raised |-> FALSE, blocks |-> trimmed]
    ELSE IF CellRaises(cells[number]) THEN [raised |-> TRUE, blocks |-> <<>>]
    ELSE
        LET header == cell_header(number, cells[number])
            content == cell_content(cells[number])
            size == TLen(header) + TLen(content)
        IN  IF current_total_notebook_chars + size > MAX_TOTAL_NOTEBOOK_CHARS
            THEN [raised |-> FALSE,
                  blocks |-> Append(trimmed, Cat(header, SkipMarker))]
            ELSE AssembleFrom(cells, number + 1,
                              Append(trimmed, Cat(header, content)),
                              current_total_notebook_chars + size)

\* main.py:97-165
Assemble(cells) == AssembleFrom(cells, 1, <<>>, 0)

\* a faulty variant of GuidelineLines: the numbering starts at 0
RECURSIVE GuidelineLinesFromZero(_, _)
GuidelineLinesFromZero(gs, i) ==
    IF i > Len(gs) THEN <<>>
    ELSE Concat(<<GuidelinePrefix, ToStr(i - 1), GuidelineSep, gs[i], NL,
                  GuidelineLinesFromZero(gs, i + 1)>>)

\* main.py:177-178, the lines of the guidelines from the i-th on
RECURSIVE GuidelineLines(_, _)
GuidelineLines(gs, i) ==
    IF i > Len(gs) THEN <<>>
    ELSE Concat(<<GuidelinePrefix, ToStr(i), GuidelineSep, gs[i], NL,
                  GuidelineLines(gs, i + 1)>>)

\* main.py:167
final_notebook_content_str(blocks) == Join(blocks, BlankLine)

\* main.py:167-188
ComposePrompt(blocks, gs) ==
    Strip(Concat(<<PromptIntro, PromptNote,
                   StartNotebookContent, final_notebook_content_str(blocks),
                   EndNotebookContent,
                   ReviewGuidelinesOpen, GuidelineLines(gs, 1),
                   ReviewGuidelinesClose,
                   AnalysisOpen, AnalysisBody, AnalysisExample,
                   AnalysisExampleLine, AnalysisFeedbackLine,
                   AnalysisClose>>))

---------------------------------------------------------------------------
(* The load tools.  What the external readers (pandas, nbformat) hand     *)
(* back is the input of each call: they raise, [ok |-> FALSE] with the     *)
(* text of the exception, or return, [ok |-> TRUE] with what was read.     *)

\* df.iloc[:, 0].dropna().tolist() of main.py:24 on the first column
RECURSIVE DropNaToList(_)
DropNaToList(column) ==
    IF Len(column) = 0 THEN <<>>
    ELSE IF Head(column).nan THEN DropNaToList(Tail(column))
    ELSE <<Head(column).value>> \o DropNaToList(Tail(column))

\* main.py:41 and main.py:61, the dict built for one cell of nb.cells
CellRecord(cell) ==
    [type |-> cell.cell_type,
     source |-> Strip(cell.source),
     outputs |-> IF "outputs" \in DOMAIN cell THEN cell.outputs ELSE <<>>]

\* the attribute reads of main.py:41 / main.py:61 that raise AttributeError
CellRecordRaises(cell) ==
    "cell_type" \notin DOMAIN cell \/ "source" \notin DOMAIN cell

\* main.py:40-43 and main.py:60-63, the list comprehension over nb.cells
ExtractCells(cells) == [i \in 1..Len(cells) |-> CellRecord(cells[i])]

ExtractRaises(cells) == \E i \in 1..Len(cells) : CellRecordRaises(cells[i])

\* str(e) of the AttributeError: the name of the first attribute missing
AttributeErrorText(cells) ==
    LET i == CHOOSE j \in 1..Len(cells) :
                 /\ CellRecordRaises(cells[j])
                 /\ \A h \in 1..(j - 1) : ~CellRecordRaises(cells[h])
    IN  IF "cell_type" \notin DOMAIN cells[i]
        THEN Txt(<<"c", "e", "l", "l", "_", "t", "y", "p", "e">>)
        ELSE Txt(<<"s", "o", "u", "r", "c", "e">>)

\* main.py:15-27
load_guidelines(read) ==
    /\ IF ~read.ok
       THEN /\ result' = Returned(Cat(ErrorLoadingGuidelines, read.error))
            /\ UNCHANGED guidelines
       ELSE IF Len(read.frame) = 0
       THEN /\ result' = Returned(Cat(ErrorLoadingGuidelines, IndexErrorText))
            /\ UNCHANGED guidelines
       ELSE /\ guidelines' = DropNaToList(read.frame[1])
            /\ result' = Returned(Cat(ToStr(Len(guidelines')),
                                          GuidelinesLoadedSuffix))
    /\ last_op' = "load_guidelines"
    /\ trimmed_cells_content' = <<>>
    /\ UNCHANGED notebook_cells

\* main.py:30-47
load_notebook(read) ==
    /\ IF ~read.ok
       THEN /\ result' = Returned(Cat(ErrorLoadingNotebook, read.error))
            /\ UNCHANGED notebook_cells
       ELSE IF ExtractRaises(read.cells)
       THEN /\ result' = Returned(Cat(ErrorLoadingNotebook,
                                          AttributeErrorText(read.cells)))
            /\ UNCHANGED notebook_cells
       ELSE /\ notebook_cells' = ExtractCells(read.cells)
            /\ result' = Returned(Cat(ToStr(Len(notebook_cells')),
                                          CellsLoadedSuffix))
    /\ last_op' = "load_notebook"
    /\ trimmed_cells_content' = <<>>
    /\ UNCHANGED guidelines

\* main.py:50-67: notebook_cells.clear() runs once nbformat.reads returned,
\* before the list comprehension handed to extend() is evaluated
load_notebook_content(read) ==
    /\ IF ~read.ok
       THEN /\ result' = Returned(Cat(FailedToParseNotebook, read.error))
            /\ UNCHANGED notebook_cells
       ELSE IF ExtractRaises(read.cells)
       THEN /\ notebook_cells' = <<>>
            /\ result' = Returned(Cat(FailedToParseNotebook,
                                          AttributeErrorText(read.cells)))
       ELSE /\ notebook_cells' = ExtractCells(read.cells)
            /\ result' = Returned(Cat(ToStr(Len(notebook_cells')),
                                          CellsLoadedPastedSuffix))
    /\ last_op' = "load_notebook_content"
    /\ trimmed_cells_content' = <<>>
    /\ UNCHANGED guidelines

\* main.py:72-188
get_prompt_for_claude ==
    /\ IF Len(guidelines) = 0
       THEN /\ result' = Returned(NoGuidelinesMsg)
            /\ trimmed_cells_content' = <<>>
       ELSE IF Len(notebook_cells) = 0
       THEN /\ result' = Returned(NoNotebookMsg)
            /\ trimmed_cells_content' = <<>>
       ELSE LET loop == Assemble(notebook_cells)
            IN  IF loop.raised
                THEN /\ result' = Raised
                     /\ trimmed_cells_content' = <<>>
                ELSE /\ result' = Returned(ComposePrompt(loop.blocks,
                                                         guidelines))
                     /\ trimmed_cells_content' = loop.blocks
    /\ last_op' = "get_prompt_for_claude"
    /\ UNCHANGED <<guidelines, notebook_cells>>

---------------------------------------------------------------------------
(* The inputs the tools are called with.                                   *)

\* sizes within Spread of each threshold are tried
Spread == 1
\* the line count and the stream length of the worked examples
ScenarioLines == 20
ScenarioStreamChars == 250

Str(text) == [nan |-> FALSE, value |-> text]
NaN == [nan |-> TRUE, value |-> <<>>]

\* n characters, the i-th being the last digit of i
Pattern(n) == [i \in 1..n |-> [c |-> Digits[(i % 10) + 1], n |-> 1]]

\* line i of a code source: "x1", "x2", ...
Line(i) == Cat(Txt(<<"x">>), ToStr(i))
CodeSource(n) == Join([i \in 1..n |-> Line(i)], NL)

\* the sizes tried around a threshold, then a larger one
SizesAround(max, more) ==
    [i \in 1..(2 * Spread + 1) |-> max - Spread - 1 + i] \o <<more>>

RawMarkdown(source) == [cell_type |-> MarkdownType, source |-> source]
RawCode(source, outputs) ==
    [cell_type |-> CodeType, source |-> source, outputs |-> outputs]
RawOther(source) == [cell_type |-> Txt(<<"r", "a", "w">>), source |-> source]

Stream(text) == [output_type |-> "stream", text |-> text]
ExecuteResult(data) == [output_type |-> "execute_result", data |-> data]
ErrorOutput(ename, evalue) ==
    [output_type |-> "error", ename |-> ename, evalue |-> evalue]
DisplayData(data) == [output_type |-> "display_data", data |-> data]
PyStr(text) == [list |-> FALSE, value |-> text]
PyList(texts) == [list |-> TRUE, value |-> texts]

GuidelineA == Txt(<<"U", "s", "e", " ", "s", "e", "e", "d", "s">>)
GuidelineB == Txt(<<"N", "o", " ", "l", "e", "a", "k", "s">>)

GuidelineFrames ==
    << \* no column at all
       <<>>,
       \* a column of missing values only
       << <<NaN, NaN>> >>,
       \* two columns, the first with a gap and a repeated entry
       << <<Str(GuidelineA), NaN, Str(GuidelineB), Str(GuidelineA)>>,
          <<Str(GuidelineB)>> >>,
       \* more than nine entries
       << [i \in 1..(10 + Spread) |-> Str(Cat(Txt(<<"g">>), ToStr(i)))] >> >>

ParserErrors == {Txt(<<"b", "a", "d">>)}

GuidelineReads ==
    {[ok |-> FALSE, error |-> e, frame |-> <<>>] : e \in ParserErrors}
    \cup {[ok |-> TRUE, error |-> <<>>, frame |-> GuidelineFrames[i]] :
              i \in 1..Len(GuidelineFrames)}

\* a small notebook with every kind of cell and output
MixedNotebook ==
    << RawMarkdown(Txt(<<" ", "#", " ", "T", "\n", "a", " ", "\n">>)),
       RawCode(Concat(<<NL, CodeSource(2), Txt(<<" ">>)>>),
               << Stream(Txt(<<"h", "i", "\n">>)),
                  ExecuteResult("text/plain" :> PyStr(Txt(<<"4", "2">>))),
                  ExecuteResult(("text/plain" :> PyList(<<Txt(<<"a">>), Txt(<<"b">>)>>))
                                    @@ ("image/png" :> PyStr(Txt(<<"P">>)))),
                  ExecuteResult("image/png" :> PyStr(Txt(<<"P">>))),
                  ExecuteResult("text/html" :> PyStr(Txt(<<"<", "p", ">">>))),
                  ErrorOutput(Txt(<<"E">>), Txt(<<"n", "o">>)),
                  DisplayData("image/png" :> PyStr(Txt(<<"P">>))) >>),
       RawOther(Txt(<<"r">>)),
       RawCode(<<>>, <<>>) >>

\* code and markdown sources with sizes around their thresholds
SourceSizesNotebook ==
    LET lines == SizesAround(MAX_LINES_PER_CODE_CELL, ScenarioLines)
        chars == SizesAround(MAX_CHARS_PER_MD_CELL, 2 * MAX_CHARS_PER_MD_CELL)
    IN  [i \in 1..Len(lines) |-> RawCode(CodeSource(lines[i]), <<>>)]
        \o [i \in 1..Len(chars) |->
                RawMarkdown(Concat(<<Txt(<<" ">>), Pattern(chars[i]), NL>>))]

\* code cells with one output each, with sizes around the thresholds
OutputSizesNotebook ==
    LET stream == SizesAround(MAX_OUTPUT_CHARS_STREAM, ScenarioStreamChars)
        exec == SizesAround(MAX_OUTPUT_CHARS_EXEC_RESULT,
                            2 * MAX_OUTPUT_CHARS_EXEC_RESULT)
        error == SizesAround(MAX_ERROR_CHARS, 2 * MAX_ERROR_CHARS)
        fixed == TLen(ErrorTypePrefix) + TLen(ErrorValuePrefix) + 1
    IN  [i \in 1..Len(stream) |->
             RawCode(Line(i), <<Stream(Pattern(stream[i]))>>)]
        \o [i \in 1..Len(exec) |->
                RawCode(Line(i),
                        <<ExecuteResult("text/plain"
                                            :> PyStr(Pattern(exec[i])))>>)]
        \o [i \in 1..Len(exec) |->
                RawCode(Line(i),
                        <<ExecuteResult("text/plain" :>
                              PyList(<<Pattern(exec[i] - 3),
                                       Txt(<<"a", "b">>)>>))>>)]
        \o [i \in 1..Len(error) |->
                RawCode(Line(i),
                        <<ErrorOutput(Txt(<<"E">>), Pattern(error[i] - fixed))>>)]

CodeHeaderLen == TLen(cell_header(1, [type |-> CodeType]))

\* a first cell that misses the budget by `short` characters (overshoots it
\* when short < 0), then two small cells
FillNotebook(short) ==
    << RawCode(Rep("x", MAX_TOTAL_NOTEBOOK_CHARS - CodeHeaderLen - short),
               <<>>),
       RawCode(Txt(<<"y">>), <<>>),
       RawCode(Txt(<<"z">>), <<>>) >>

\* two cells that take the budget exactly
HalvesNotebook ==
    LET half == MAX_TOTAL_NOTEBOOK_CHARS \div 2
    IN  << RawCode(Rep("x", half - CodeHeaderLen), <<>>),
           RawCode(Rep("y", MAX_TOTAL_NOTEBOOK_CHARS - half - CodeHeaderLen),
                   <<>>) >>

\* the second cell does not fit; the third, small, would
OverflowNotebook ==
    << RawCode(Rep("x", (2 * MAX_TOTAL_NOTEBOOK_CHARS) \div 3), <<>>),
       RawCode(Rep("y", MAX_TOTAL_NOTEBOOK_CHARS \div 2), <<>>),
       RawMarkdown(Txt(<<"z">>)) >>

\* a stream output without its text
MalformedOutputNotebook ==
    << RawCode(Line(1), <<[output_type |-> "stream"]>>) >>

\* a cell without its source
MissingSourceNotebook ==
    << RawMarkdown(Txt(<<"o", "k">>)), [cell_type |-> CodeType] >>

Notebooks ==
    {<<>>, MixedNotebook, SourceSizesNotebook, OutputSizesNotebook,
     HalvesNotebook, OverflowNotebook, MalformedOutputNotebook,
     MissingSourceNotebook}
    \cup {FillNotebook(short) : short \in (0 - Spread)..Spread}

NotebookReads ==
    {[ok |-> FALSE, error |-> e, cells |-> <<>>] : e \in ParserErrors}
    \cup {[ok |-> TRUE, error |-> <<>>, cells |-> nb] : nb \in Notebooks}

---------------------------------------------------------------------------
(* The server: the state at start-up and one step per tool call.           *)

Init ==
    /\ guidelines = <<>>
    /\ notebook_cells = <<>>
    /\ result = Returned(<<>>)
    /\ last_op = ""
    /\ trimmed_cells_content = <<>>

Next ==
    \/ \E read \in GuidelineReads : load_guidelines(read)
    \/ \E read \in NotebookReads : load_notebook(read)
    \/ \E read \in NotebookReads : load_notebook_content(read)
    \/ get_prompt_for_claude

Spec == Init /\ [][Next]_vars

---------------------------------------------------------------------------
(* Reading the program's output back.                                      *)

\* s.startswith(p): the runs of p are the first runs of s, the last of them
\* possibly going on in s
StartsWith(s, p) ==
    \/ Len(p) = 0
    \/ /\ Len(p) <= Len(s)
       /\ \A r \in 1..(Len(p) - 1) : s[r] = p[r]
       /\ s[Len(p)].c = p[Len(p)].c
       /\ IF Len(p) = Len(s) THEN s[Len(p)].n = p[Len(p)].n
          ELSE s[Len(p)].n >= p[Len(p)].n

\* s.endswith(p)
EndsWith(s, p) ==
    \/ Len(p) = 0
    \/ /\ Len(p) <= Len(s)
       /\ \A r \in 2..Len(p) : s[Len(s) - Len(p) + r] = p[r]
       /\ s[Len(s) - Len(p) + 1].c = p[1].c
       /\ IF Len(p) = Len(s) THEN s[1].n = p[1].n
          ELSE s[Len(s) - Len(p) + 1].n >= p[1].n

\* m, of two runs or more, occurs in s with its first run ending s's run j
OccursAt(s, m, j) ==
    /\ j + Len(m) - 1 <= Len(s)
    /\ s[j].c = m[1].c /\ s[j].n >= m[1].n
    /\ \A r \in 2..(Len(m) - 1) : s[j + r - 1] = m[r]
    /\ s[j + Len(m) - 1].c = m[Len(m)].c
    /\ s[j + Len(m) - 1].n >= m[Len(m)].n

\* the non-empty text m occurs in s
Contains(s, m) ==
    IF Len(m) = 1
    THEN \E j \in 1..Len(s) : s[j].c = m[1].c /\ s[j].n >= m[1].n
    ELSE \E j \in 1..Len(s) : OccursAt(s, m, j)

Least(S) == CHOOSE i \in S : \A j \in S : i <= j

\* n < 100 in decimal
Decimal(n) ==
    IF n < 10 THEN Txt(<<Digits[n + 1]>>)
    ELSE Txt(<<Digits[(n \div 10) + 1], Digits[(n % 10) + 1]>>)

\* the last call was get_prompt_for_claude and it returned a composed prompt
Composed ==
    /\ last_op = "get_prompt_for_claude"
    /\ ~result.raised
    /\ StartsWith(result.value, PromptIntro)

\* the text of the returned prompt between the START NOTEBOOK CONTENT line
\* and the first END NOTEBOOK CONTENT delimiter after it
NotebookContent ==
    LET s == result.value
        opening == TLen(PromptIntro) + TLen(PromptNote)
                       + TLen(StartNotebookContent)
        ends == EndsOf(s, 1, Len(s))
        closing == {ends[j] : j \in {h \in 1..Len(s) :
                                        /\ OccursAt(s, EndNotebookContent, h)
                                        /\ ends[h] > opening}}
    IN  Slice(s, opening + 1, Least(closing) - 1)

Header(i) == cell_header(i, notebook_cells[i])

\* header plus rendered body of cell i, and the length of that
FullBlock(i) == Cat(Header(i), cell_content(notebook_cells[i]))
BlockSize(i) == TLen(FullBlock(i))

RECURSIVE SizeOfFirst(_)
SizeOfFirst(k) == IF k = 0 THEN 0 ELSE SizeOfFirst(k - 1) + BlockSize(k)

\* the cells whose block, added to all the blocks before it, passes the budget
OverBudget ==
    {k \in 1..Len(notebook_cells) : SizeOfFirst(k) > MAX_TOTAL_NOTEBOOK_CHARS}

---------------------------------------------------------------------------
\* C1: the notebook content of a composed prompt is never longer than the
\* budget plus one header and the skip marker (any header of the loaded
\* cells is allowed for).
C1_ContentWithinBudgetPlusOnePair ==
    Composed =>
        \E i \in 1..Len(notebook_cells) :
            TLen(NotebookContent)
                <= MAX_TOTAL_NOTEBOOK_CHARS + TLen(Header(i)) + TLen(SkipMarker)

---------------------------------------------------------------------------
\* C2: a composed prompt holds the full blocks of the cells before the first
\* cell k that passes the budget, in order, then the header of cell k with
\* the skip marker, and nothing for the cells after k; when no cell passes
\* the budget it holds every full block in order and no skip marker.
C2_SingleForwardPass ==
    Composed =>
        /\ NotebookContent = Join(trimmed_cells_content, BlankLine)
        /\ IF OverBudget = {}
           THEN /\ trimmed_cells_content
                       = [i \in 1..Len(notebook_cells) |-> FullBlock(i)]
                /\ ~Contains(NotebookContent, SkipMarker)
           ELSE LET k == Least(OverBudget)
                IN  trimmed_cells_content
                        = [i \in 1..k |-> IF i < k THEN FullBlock(i)
                                          ELSE Cat(Header(k), SkipMarker)]

\* a prompt was composed in which the second or a later cell was replaced by
\* the marker although a cell after it would have fitted in what was left
C2_Witness ==
    /\ Composed
    /\ OverBudget # {}
    /\ LET k == Least(OverBudget)
       IN  /\ k > 1
           /\ \E j \in (k + 1)..Len(notebook_cells) :
                  SizeOfFirst(k - 1) + BlockSize(j) <= MAX_TOTAL_NOTEBOOK_CHARS

---------------------------------------------------------------------------
\* C3: get_prompt_for_claude returns the "No guidelines loaded" guidance
\* whenever guidelines is empty, the guidance about the missing notebook
\* whenever guidelines is not empty and notebook_cells is, a composed prompt
\* only when both are non-empty, and in no case raises instead of returning
\* a string.
C3_GuidanceAndNeverRaises ==
    last_op = "get_prompt_for_claude" =>
        /\ ~result.raised
        /\ Len(guidelines) = 0 =>
               Contains(result.value,
                   Txt(<<"N", "o", " ", "g", "u", "i", "d", "e", "l", "i",
                         "n", "e", "s", " ", "l", "o", "a", "d", "e", "d">>))
        /\ (Len(guidelines) > 0 /\ Len(notebook_cells) = 0) =>
               Contains(result.value,
                   Txt(<<"N", "o", " ", "n", "o", "t", "e", "b", "o", "o",
                         "k", " ", "l", "o", "a", "d", "e", "d">>))
        /\ Composed => (Len(guidelines) > 0 /\ Len(notebook_cells) > 0)

---------------------------------------------------------------------------
(* Reading the truncation sites back from the emitted blocks.              *)

\* the 0-based offsets at which the non-empty text m starts in s
Starts(s, m) ==
    LET ends == EndsOf(s, 1, Len(s))
    IN  IF Len(m) = 1
        THEN {ends[j] - s[j].n :
                  j \in {h \in 1..Len(s) : s[h].c = m[1].c /\ s[h].n >= m[1].n}}
        ELSE {ends[j] - m[1].n : j \in {h \in 1..Len(s) : OccursAt(s, m, h)}}

\* s.find(m) for a text m that occurs in s
Find(s, m) == Least(Starts(s, m))

\* cell i was emitted in full by the last call
Emitted(i) ==
    /\ Composed
    /\ i <= Len(trimmed_cells_content)
    /\ trimmed_cells_content[i] # Cat(Header(i), SkipMarker)

\* what follows the header in the block emitted for cell i
Body(i) == SliceFrom(trimmed_cells_content[i], TLen(Header(i)))

\* the truncation site of cell i, for the cells that have exactly one
Site(i) ==
    LET cell == notebook_cells[i]
    IN  IF cell.type = MarkdownType THEN "markdown"
        ELSE IF cell.type # CodeType \/ CellRaises(cell) THEN "none"
        ELSE IF Len(cell.outputs) = 0 THEN "code"
        ELSE IF Len(cell.outputs) > 1 THEN "none"
        ELSE IF cell.outputs[1].output_type = "stream" THEN "stream"
        ELSE IF cell.outputs[1].output_type = "error" THEN "error"
        ELSE IF /\ cell.outputs[1].output_type = "execute_result"
                /\ "text/plain" \in DOMAIN cell.outputs[1].data
             THEN "result"
        ELSE "none"

SiteMax(site) ==
    CASE site = "code" -> MAX_LINES_PER_CODE_CELL
      [] site = "markdown" -> MAX_CHARS_PER_MD_CELL
      [] site = "stream" -> MAX_OUTPUT_CHARS_STREAM
      [] site = "result" -> MAX_OUTPUT_CHARS_EXEC_RESULT
      [] site = "error" -> MAX_ERROR_CHARS

\* the marker of a character-based site
SiteMarker(site) ==
    CASE site = "markdown" -> MarkdownMarker
      [] site = "stream" -> StreamMarker
      [] site = "result" -> ExecResultMarker
      [] site = "error" -> ErrorMarker

SiteFence(site) ==
    CASE site = "stream" -> StreamFenceOpen
      [] site = "result" -> ResultFenceOpen
      [] site = "error" -> ErrorFenceOpen

\* the text handed to the site of cell i, before any truncation
Original(i) ==
    LET cell == notebook_cells[i]
    IN  CASE Site(i) \in {"code", "markdown"} -> Strip(cell.source)
          [] Site(i) = "stream" -> cell.outputs[1].text
          [] Site(i) = "result" -> PlainText(cell.outputs[1])
          [] Site(i) = "error" -> ErrorText(cell.outputs[1])

\* its unit count: lines for a code source, characters elsewhere
Units(i) ==
    IF Site(i) = "code" THEN Len(Split(Original(i))) ELSE TLen(Original(i))

\* the text of the site as it stands in the emitted block: the body for a
\* source, what is inside the fence for an output
Rendered(i) ==
    IF Site(i) \in {"code", "markdown"} THEN Body(i)
    ELSE LET open == SiteFence(Site(i))
             from == Find(Body(i), open) + TLen(open)
         IN  Slice(Body(i), from + 1, TLen(Body(i)) - TLen(FenceClose))

\* the rendered text of a character-based site around its marker
Pieces(i) ==
    LET marker == SiteMarker(Site(i))
        at == Find(Rendered(i), marker)
    IN  [head |-> Prefix(Rendered(i), at),
         tail |-> SliceFrom(Rendered(i), at + TLen(marker))]

\* the line "... [CODE TRUNCATED - k lines omitted] ..."
CodeMarkerLine(k) ==
    Concat(<<Txt(<<".", ".", ".", " ", "[", "C", "O", "D", "E", " ", "T", "R",
                   "U", "N", "C", "A", "T", "E", "D", " ", "-", " ">>),
             Decimal(k),
             Txt(<<" ", "l", "i", "n", "e", "s", " ", "o", "m", "i", "t", "t",
                   "e", "d", "]", " ", ".", ".", ".">>)>>)

\* the lines of a rendered code source other than marker lines
KeptLines(i) ==
    LET lines == Split(Rendered(i))
    IN  {j \in 1..Len(lines) :
            ~Contains(lines[j], Txt(<<"T", "R", "U", "N", "C", "A", "T", "E",
                                      "D">>))}

\* the original units kept in the rendered text, the marker not counted;
\* -1 when what stands around the marker is not a head and a tail of the
\* original
Kept(i) ==
    IF Site(i) = "code" THEN Cardinality(KeptLines(i))
    ELSE IF ~Contains(Rendered(i), SiteMarker(Site(i))) THEN 0 - 1
    ELSE IF /\ StartsWith(Original(i), Pieces(i).head)
            /\ EndsWith(Original(i), Pieces(i).tail)
         THEN TLen(Pieces(i).head) + TLen(Pieces(i).tail)
    ELSE 0 - 1

\* cell i was emitted in full and its one site had more than the maximum
OverThreshold(i) ==
    /\ Emitted(i)
    /\ Site(i) # "none"
    /\ Units(i) > SiteMax(Site(i))

\* the marker of a truncated code source states k lines omitted
MarkerStates(i, k) ==
    LET lines == Split(Rendered(i))
    IN  \E j \in 1..Len(lines) : lines[j] = CodeMarkerLine(k)

---------------------------------------------------------------------------
\* C4 as stated: at every truncation site, an input over the threshold keeps
\* exactly the configured maximum of original units (head plus tail, the
\* marker not counted), and the marker of a code source states
\* len(lines) - max omitted lines.
C4_KeptEqualsMaximum ==
    \A i \in 1..Len(notebook_cells) :
        OverThreshold(i) =>
            /\ Kept(i) = SiteMax(Site(i))
            /\ Site(i) = "code" => MarkerStates(i, Units(i) - SiteMax("code"))

\* C4: an input over the threshold keeps exactly the configured maximum of
\* original units at the code, markdown and error sites, and at the stream
\* and execute_result sites keeps floor(max/2) units of head plus
\* max - floor(max/2) - len(marker) units of tail, none when that is
\* negative; the marker of a code source states len(lines) - max omitted
\* lines.
C4_KeptPerSite ==
    \A i \in 1..Len(notebook_cells) :
        OverThreshold(i) =>
            LET max == SiteMax(Site(i))
            IN  /\ Site(i) \in {"code", "markdown", "error"} => Kept(i) = max
                /\ Site(i) \in {"stream", "result"} =>
                       Kept(i) = (max \div 2)
                                   + Max(0, max - (max \div 2)
                                              - TLen(SiteMarker(Site(i))))
                /\ Site(i) = "code" =>
                       MarkerStates(i, Units(i) - SiteMax("code"))

\* a prompt was composed from a notebook with a stream, an execute_result and
\* an error output over their thresholds, each emitted in full
C4_Witness ==
    \A site \in {"stream", "result", "error"} :
        \E i \in 1..Len(notebook_cells) : OverThreshold(i) /\ Site(i) = site

---------------------------------------------------------------------------
\* C5: a stream output longer than the 100-character threshold is rendered,
\* inside the fence, as 100 characters in total: a 50-character head, the
\* marker containing "STREAM OUTPUT TRUNCATED", and a tail of
\* max - head - len(marker) characters, floored at 0, from the end of the
\* text.
C5_StreamRenderedInMaximum ==
    \A i \in 1..Len(notebook_cells) :
        (OverThreshold(i) /\ Site(i) = "stream") =>
            /\ TLen(Rendered(i)) = MAX_OUTPUT_CHARS_STREAM
            /\ Contains(Rendered(i),
                   Txt(<<"S", "T", "R", "E", "A", "M", " ", "O", "U", "T",
                         "P", "U", "T", " ", "T", "R", "U", "N", "C", "A",
                         "T", "E", "D">>))
            /\ Pieces(i).head = Prefix(Original(i), MAX_OUTPUT_CHARS_STREAM \div 2)
            /\ TLen(Pieces(i).head) = MAX_OUTPUT_CHARS_STREAM \div 2
            /\ TLen(Pieces(i).tail)
                   = Max(0, MAX_OUTPUT_CHARS_STREAM - TLen(Pieces(i).head)
                               - TLen(StreamMarker))
            /\ EndsWith(Original(i), Pieces(i).tail)

---------------------------------------------------------------------------
\* C6: a code source of n > 15 lines is rendered as exactly its first
\* floor(15/2) = 7 lines, one marker line stating n - 15 lines omitted, and
\* its last 8 lines, in that order.
C6_HeadMarkerTail ==
    \A i \in 1..Len(notebook_cells) :
        (OverThreshold(i) /\ Site(i) = "code") =>
            LET lines == Split(Original(i))
                n == Len(lines)
                head == MAX_LINES_PER_CODE_CELL \div 2
                tail == MAX_LINES_PER_CODE_CELL - head
            IN  Split(Rendered(i))
                    = [j \in 1..(MAX_LINES_PER_CODE_CELL + 1) |->
                          IF j <= head THEN lines[j]
                          ELSE IF j = head + 1
                          THEN CodeMarkerLine(n - MAX_LINES_PER_CODE_CELL)
                          ELSE lines[n - MAX_LINES_PER_CODE_CELL + j - 1]]

\* a prompt was composed with a code cell of ScenarioLines distinct lines
\* emitted in full
C6_Witness ==
    \E i \in 1..Len(notebook_cells) :
        /\ OverThreshold(i)
        /\ Site(i) = "code"
        /\ Units(i) = ScenarioLines
        /\ Cardinality({Split(Original(i))[j] : j \in 1..Units(i)}) = Units(i)

---------------------------------------------------------------------------
(* The render of a cell with no truncation applied.                        *)

UntruncatedOutput(output) ==
    IF output.output_type = "stream"
    THEN <<Concat(<<StreamFenceOpen, output.text, FenceClose>>)>>
    ELSE IF output.output_type = "execute_result"
    THEN IF "text/plain" \in DOMAIN output.data
         THEN <<Concat(<<ResultFenceOpen, PlainText(output), FenceClose>>)>>
         ELSE IF "image/png" \in DOMAIN output.data
         THEN <<ImagePlaceholder>>
         ELSE <<>>
    ELSE IF output.output_type = "error"
    THEN <<Concat(<<ErrorFenceOpen, ErrorText(output), FenceClose>>)>>
    ELSE <<>>

RECURSIVE UntruncatedOutputs(_)
UntruncatedOutputs(outputs) ==
    IF Len(outputs) = 0 THEN <<>>
    ELSE UntruncatedOutput(Head(outputs)) \o UntruncatedOutputs(Tail(outputs))

UntruncatedBody(cell) ==
    LET source == Strip(cell.source)
    IN  IF cell.type = CodeType
        THEN Join(<<source>> \o UntruncatedOutputs(cell.outputs), BlankLine)
        ELSE IF cell.type = MarkdownType THEN source
        ELSE <<>>

\* the unit count of an output and the maximum of its site; an output that
\* is never truncated counts 0 units
OutputUnits(output) ==
    IF output.output_type = "stream" THEN TLen(output.text)
    ELSE IF output.output_type = "error" THEN TLen(ErrorText(output))
    ELSE IF /\ output.output_type = "execute_result"
            /\ "text/plain" \in DOMAIN output.data
         THEN TLen(PlainText(output))
    ELSE 0
OutputMax(output) ==
    IF output.output_type = "stream" THEN MAX_OUTPUT_CHARS_STREAM
    ELSE IF output.output_type = "error" THEN MAX_ERROR_CHARS
    ELSE MAX_OUTPUT_CHARS_EXEC_RESULT

\* the source and every output of the cell are at or below their thresholds
WithinThresholds(cell) ==
    IF cell.type = MarkdownType
    THEN TLen(Strip(cell.source)) <= MAX_CHARS_PER_MD_CELL
    ELSE IF cell.type = CodeType
    THEN /\ Len(Split(Strip(cell.source))) <= MAX_LINES_PER_CODE_CELL
         /\ \A j \in 1..Len(cell.outputs) :
                OutputUnits(cell.outputs[j]) <= OutputMax(cell.outputs[j])
    ELSE TRUE

Truncated == Txt(<<"T", "R", "U", "N", "C", "A", "T", "E", "D">>)

---------------------------------------------------------------------------
\* C7: the block of a cell whose source and outputs are all at or below
\* their thresholds is its header and the untruncated render, and a
\* truncation marker stands in an emitted block if and only if a unit count
\* of the cell exceeds its threshold.
C7_UnchangedAtOrBelowThreshold ==
    \A i \in 1..Len(notebook_cells) :
        Emitted(i) =>
            /\ WithinThresholds(notebook_cells[i]) =>
                   trimmed_cells_content[i]
                       = Cat(Header(i), UntruncatedBody(notebook_cells[i]))
            /\ Contains(trimmed_cells_content[i], Truncated)
                   <=> ~WithinThresholds(notebook_cells[i])

\* a prompt was composed with a markdown source of exactly the maximum and a
\* code source of exactly the maximum, both emitted in full
C7_Witness ==
    \A site \in {"markdown", "code"} :
        \E i \in 1..Len(notebook_cells) :
            /\ Emitted(i)
            /\ Site(i) = site
            /\ Units(i) = SiteMax(site)

---------------------------------------------------------------------------
\* the indices of the lines of the prompt equal to the literal, its
\* surrounding newlines left out
LinesEqual(lines, literal) ==
    {j \in 1..Len(lines) : lines[j] = Strip(literal)}

\* C8: between the line REVIEW GUIDELINES and the line END REVIEW GUIDELINES
\* the composed prompt holds exactly the lines "Guideline i: text", one per
\* entry of guidelines, i running from 1 in the order of the entries; the
\* section stands after the END NOTEBOOK CONTENT line and before the
\* ANALYSIS INSTRUCTIONS line.
C8_GuidelinesNumberedInOrder ==
    Composed =>
        LET lines == Split(result.value)
            content == LinesEqual(lines, EndNotebookContent)
            open == LinesEqual(lines, ReviewGuidelinesOpen)
            close == LinesEqual(lines, ReviewGuidelinesClose)
            analysis == LinesEqual(lines, AnalysisOpen)
        IN  /\ Cardinality(open) = 1 /\ Cardinality(close) = 1
            /\ Cardinality(analysis) = 1 /\ content # {}
            /\ \A e \in content : \A g \in open : e < g
            /\ \A c \in close : \A a \in analysis : c < a
            /\ \A g \in open : \A c \in close :
                   /\ c = g + Len(guidelines) + 1
                   /\ \A i \in 1..Len(guidelines) :
                          lines[g + i]
                              = Concat(<<Txt(<<"G", "u", "i", "d", "e", "l",
                                               "i", "n", "e", " ">>),
                                         Decimal(i), Txt(<<":", " ">>),
                                         guidelines[i]>>)

\* a prompt was composed from more than nine guidelines, so that the numbers
\* of the last lines have two digits
C8_Witness == Composed /\ Len(guidelines) > 9

---------------------------------------------------------------------------
\* the last call was a load that reported success
LoadSucceeded ==
    /\ ~result.raised
    /\ \/ last_op = "load_guidelines"
              /\ EndsWith(result.value, GuidelinesLoadedSuffix)
       \/ last_op = "load_notebook"
              /\ EndsWith(result.value, CellsLoadedSuffix)
       \/ last_op = "load_notebook_content"
              /\ EndsWith(result.value, CellsLoadedPastedSuffix)

\* C9: each slot holds the value of the most recent successful load of that
\* slot: a step changes guidelines only by a successful load_guidelines and
\* notebook_cells only by a successful load_notebook or
\* load_notebook_content, get_prompt_for_claude changes neither, and two
\* get_prompt_for_claude calls in a row return the same.
C9_SlotsHoldLastSuccessfulLoad ==
    [][ /\ guidelines' # guidelines =>
               (last_op' = "load_guidelines" /\ LoadSucceeded')
        /\ notebook_cells' # notebook_cells =>
               /\ last_op' \in {"load_notebook", "load_notebook_content"}
               /\ LoadSucceeded'
        /\ (last_op = "get_prompt_for_claude"
                /\ last_op' = "get_prompt_for_claude") => result' = result
      ]_vars

---------------------------------------------------------------------------
\* the last call was a load that reported a failure
LoadFailed ==
    \/ last_op = "load_guidelines"
           /\ StartsWith(result.value, ErrorLoadingGuidelines)
    \/ last_op = "load_notebook"
           /\ StartsWith(result.value, ErrorLoadingNotebook)
    \/ last_op = "load_notebook_content"
           /\ StartsWith(result.value, FailedToParseNotebook)

\* C10: a load never raises, and a load that fails returns its error string
\* with both slots holding what they held before the call.
C10_FailedLoadKeepsState ==
    [][ /\ last_op' \in {"load_guidelines", "load_notebook",
                         "load_notebook_content"} =>
               (~result'.raised /\ (LoadFailed' \/ LoadSucceeded'))
        /\ LoadFailed' => UNCHANGED <<guidelines, notebook_cells>>
      ]_vars

===========================================================================
